---------------------------- MODULE Spec2Model ----------------------------
(***************************************************************************)
(* A model of deeplx-rs (src/src/lib.rs): the request-fidelity engine of   *)
(* deepl_translate -- random_number_id, timestamp_for_i_count, the serde   *)
(* serialization of PostData, the id-keyed obfuscation of the method key   *)
(* delimiter -- and the single HTTP exchange with its Ok / Err / panic      *)
(* outcomes.                                                               *)
(*                                                                         *)
(* Integers of the program (i64 ids near 8.3e9, u128 timestamps up to      *)
(* 2^128-1) do not fit TLC's integers, so every program integer is held as *)
(* its sequence of decimal digits, most significant first, without leading *)
(* zeros (zero is <<0>>); arithmetic is exact, and the type's width is     *)
(* enforced by comparing against U128Max / I64Max.  Strings of the program *)
(* are sequences of bytes (0..255), as Rust's &str is.                     *)
(***************************************************************************)
EXTENDS Integers, Sequences, FiniteSets, TLC

VARIABLES
    pc,              \* position in deepl_translate (or "panicked" / "done")
    text,            \* argument text: bytes
    src_lang,        \* argument src_lang: bytes
    target_lang,     \* argument target_lang: bytes
    raw,             \* the raw clock readings (ms) taken so far by timestamp_for_i_count
    count,           \* let count (l.166); <<>> before it is computed
    id,              \* let id (l.177); <<>> before it is computed
    timestamp,       \* post_data.params.timestamp (l.179); <<>> before it is computed
    post_data,       \* let post_data = dump_post_data(..) (l.184): bytes
    post_data_str,   \* let post_data_str (l.185): bytes
    sent,            \* the bodies handed to deepl_translate_request, in order
    resp,            \* the response received (or NoResp)
    result,          \* what the call returned to its caller (or NoResult)
    panic            \* why the call aborted ("none" while it has not)

vars == <<pc, text, src_lang, target_lang, raw, count, id,
          timestamp, post_data, post_data_str, sent, resp, result, panic>>

-----------------------------------------------------------------------------
(* Bounds of the model. *)

\* clock readings are 0..MaxClock milliseconds since the epoch
MaxClock == 3
\* the generator's draws are sampled within MaxDrawSpan of the low end of its range
MaxDrawSpan == 13
\* texts made only of line feeds have up to MaxLineFeeds of them
MaxLineFeeds == 2
\* the pure-function runs try the ids IdBase .. IdBase + MaxIdOffset
MaxIdOffset == 30
\* the pure-function runs try counts 0..MaxSmallCount and the MaxSmallCount+1 largest u128
MaxSmallCount == 9

-----------------------------------------------------------------------------
(* Exact arithmetic on decimal digit sequences. *)

Front(s) == SubSeq(s, 1, Len(s) - 1)
Last(s) == s[Len(s)]

Max(x, y) == IF x >= y THEN x ELSE y

\* without leading zeros
Norm(d) ==
    LET nz == { i \in 1..Len(d) : d[i] # 0 }
    IN  IF nz = {} THEN <<0>>
        ELSE SubSeq(d, CHOOSE i \in nz : \A j \in nz : i <= j, Len(d))

RECURSIVE FromInt(_)
FromInt(n) == IF n < 10 THEN <<n>> ELSE FromInt(n \div 10) \o <<n % 10>>

Zero == <<0>>
One == <<1>>

Less(a, b) ==
    IF Len(a) # Len(b) THEN Len(a) < Len(b)
    ELSE \E i \in 1..Len(a) : a[i] < b[i] /\ \A j \in 1..(i - 1) : a[j] = b[j]

LessEq(a, b) == a = b \/ Less(a, b)

\* the i-th digit from the right (0 beyond the number)
DigitR(a, i) == IF i <= Len(a) THEN a[Len(a) + 1 - i] ELSE 0

\* the carry out of the i lowest digits of a + b
RECURSIVE CarryAt(_, _, _)
CarryAt(a, b, i) ==
    IF i = 0 THEN 0 ELSE (DigitR(a, i) + DigitR(b, i) + CarryAt(a, b, i - 1)) \div 10

Add(a, b) ==
    LET n == Max(Len(a), Len(b)) + 1
    IN  Norm([j \in 1..n |->
                (DigitR(a, n + 1 - j) + DigitR(b, n + 1 - j) + CarryAt(a, b, n - j)) % 10])

\* the borrow out of the i lowest digits of a - b
RECURSIVE BorrowAt(_, _, _)
BorrowAt(a, b, i) ==
    IF i = 0 THEN 0
    ELSE IF DigitR(a, i) - DigitR(b, i) - BorrowAt(a, b, i - 1) < 0 THEN 1 ELSE 0

\* a - b, for b <= a
Sub(a, b) ==
    LET n == Len(a)
    IN  Norm([j \in 1..n |->
                (DigitR(a, n + 1 - j) - DigitR(b, n + 1 - j)
                   - BorrowAt(a, b, n - j) + 10) % 10])

\* the carry out of the i lowest digits of a * k, for a small multiplier k
RECURSIVE MulCarryAt(_, _, _)
MulCarryAt(a, k, i) ==
    IF i = 0 THEN 0 ELSE (DigitR(a, i) * k + MulCarryAt(a, k, i - 1)) \div 10

MulSmall(a, k) ==
    LET n == Len(a) + Len(FromInt(k))
    IN  Norm([j \in 1..n |->
                (DigitR(a, n + 1 - j) * k + MulCarryAt(a, k, n - j)) % 10])

\* the first i digits of a, mod a small modulus k, as an integer
RECURSIVE ModPrefix(_, _, _)
ModPrefix(a, k, i) ==
    IF i = 0 THEN 0 ELSE (ModPrefix(a, k, i - 1) * 10 + a[i]) % k

ModSmall(a, k) == ModPrefix(a, k, Len(a))

\* a mod b by long division, for b # 0
RECURSIVE Reduce(_, _)
Reduce(r, b) == IF Less(r, b) THEN r ELSE Reduce(Sub(r, b), b)

RECURSIVE ModDigits(_, _, _)
ModDigits(a, b, i) ==
    IF i = 0 THEN Zero
    ELSE Reduce(Norm(ModDigits(a, b, i - 1) \o <<a[i]>>), b)

Mod(a, b) == ModDigits(a, b, Len(a))

\* u128::MAX = 2^128 - 1
U128Max ==
    <<3,4,0, 2,8,2, 3,6,6, 9,2,0, 9,3,8, 4,6,3, 4,6,3, 3,7,4, 6,0,7, 4,3,1,
      7,6,8, 2,1,1, 4,5,5>>

\* i64::MAX = 2^63 - 1
I64Max == <<9, 2,2,3, 3,7,2, 0,3,6, 8,5,4, 7,7,5, 8,0,7>>

-----------------------------------------------------------------------------
(* Byte strings of the program. *)

QUOTE == 34      \* '"'
BACKSLASH == 92  \* '\'
LF == 10         \* the byte compared in the fold of deepl_translate

\* "2.0"
S_2_0 == <<50, 46, 48>>
\* "LMT_handle_texts"
S_LMT_handle_texts == <<76, 77, 84, 95, 104, 97, 110, 100, 108, 101, 95, 116, 101, 120, 116, 115>>
\* "newlines"
S_newlines == <<110, 101, 119, 108, 105, 110, 101, 115>>
\* "auto"
S_auto == <<97, 117, 116, 111>>
\* "ZH"
S_ZH == <<90, 72>>
\* "DE"
S_DE == <<68, 69>>
\* "hello\nworld" (one line feed)
S_hello_world == <<104, 101, 108, 108, 111, 10, 119, 111, 114, 108, 100>>
\* "method" (a value that ends where the key's closing quote would follow)
S_method == <<109, 101, 116, 104, 111, 100>>
\* the ten characters "method":" themselves, quotes included
S_method_pattern == <<34, 109, 101, 116, 104, 111, 100, 34, 58, 34>>
\* a backslash followed by "method":" (an escape in front of the pattern)
S_backslash_pattern == <<92>> \o S_method_pattern
\* a control byte without a short escape (0x01), then a tab
S_control == <<1, 9>>

\* the patterns of the obfuscation step, l.186 and l.188
METHOD_CANONICAL == <<34, 109, 101, 116, 104, 111, 100, 34, 58, 34>>          \* "method":"
METHOD_PADDED == <<34, 109, 101, 116, 104, 111, 100, 34, 32, 58, 32, 34>>     \* "method" : "
METHOD_SINGLE == <<34, 109, 101, 116, 104, 111, 100, 34, 58, 32, 34>>         \* "method": "

-----------------------------------------------------------------------------
(* random_number_id, l.101-110. *)

GenLo == 8300000
GenHi == 8399998
IdScale == 1000

\* rng.gen_range(8300000..8399998): a half-open range, GenLo <= n < GenHi
\* The generator is seeded from the clock; its output for a seed is not
\* modelled, so a draw is any value of the range.  The model samples the
\* low end of the range and its largest value.
\* the range taken as closed: gen_range(8300000..=8399998)
DrawsInclusive ==
    { GenLo + k : k \in 0..MaxDrawSpan } \cup { GenHi }

Draws ==
    { GenLo + k : k \in 0..MaxDrawSpan } \cup { GenHi - 1 }

\* a * b in i64: a panic under overflow checks, a wrap without them (the
\* wrapped value is not needed: no product of the model leaves i64)
MulI64(a, k, checks) ==
    LET p == MulSmall(a, k)
    IN  IF LessEq(p, I64Max) THEN [ok |-> TRUE, val |-> p]
        ELSE IF checks THEN [ok |-> FALSE, why |-> "attempt to multiply with overflow"]
        ELSE [ok |-> TRUE, val |-> Sub(p, MulSmall(Add(I64Max, One), 2))]

\* num * 1000, l.109
random_number_id(num, checks) == MulI64(FromInt(num), IdScale, checks)

-----------------------------------------------------------------------------
(* timestamp_for_i_count, l.112-123. *)

\* a + b in u128: a panic under overflow checks, a wrap without them
AddU128(a, b, checks) ==
    LET s == Add(a, b)
    IN  IF LessEq(s, U128Max) THEN [ok |-> TRUE, val |-> s]
        ELSE IF checks THEN [ok |-> FALSE, why |-> "attempt to add with overflow"]
        ELSE [ok |-> TRUE, val |-> Sub(s, Add(U128Max, One))]

\* timestamp % i_count: a panic for a zero divisor in every build
RemU128(a, b) ==
    IF b = Zero
    THEN [ok |-> FALSE, why |-> "attempt to calculate the remainder with a divisor of zero"]
    ELSE [ok |-> TRUE, val |-> Mod(a, b)]

\* the timestamp floored to a multiple of i_count, the modulus not added
timestamp_floor_only(i_count, now, checks) ==
    IF i_count # Zero
    THEN LET inc == AddU128(i_count, One, checks)
         IN  IF ~inc.ok THEN inc
             ELSE LET rem == RemU128(now, inc.val)
                  IN  IF ~rem.ok THEN rem
                      ELSE [ok |-> TRUE, val |-> Sub(now, rem.val)]
    ELSE [ok |-> TRUE, val |-> now]

\* now is the clock reading of l.113-116
timestamp_for_i_count(i_count, now, checks) ==
    IF i_count # Zero
    THEN LET inc == AddU128(i_count, One, checks)            \* i_count += 1
         IN  IF ~inc.ok THEN inc
             ELSE LET rem == RemU128(now, inc.val)           \* timestamp % i_count
                  IN  IF ~rem.ok THEN rem
                      ELSE AddU128(Sub(now, rem.val), inc.val, checks)
    ELSE [ok |-> TRUE, val |-> now]

\* the fold of l.166-175 over text.as_bytes(), from the accumulator init; the
\* additions stay far inside u128 for the clock's range
\* the fold comparing each byte with 13 (carriage return) instead of 10
RECURSIVE FoldCarriageReturns(_, _)
FoldCarriageReturns(init, bytes) ==
    IF bytes = <<>> THEN init
    ELSE LET i_count == FoldCarriageReturns(init, Front(bytes))
         IN  IF Last(bytes) = 13 THEN Add(i_count, One) ELSE i_count

RECURSIVE FoldLineFeeds(_, _)
FoldLineFeeds(init, bytes) ==
    IF bytes = <<>> THEN init
    ELSE LET i_count == FoldLineFeeds(init, Front(bytes))
         IN  IF Last(bytes) = LF THEN Add(i_count, One) ELSE i_count

-----------------------------------------------------------------------------
(* serde_json::to_string of PostData, l.12-46 and l.125-127. *)

HexDigits == <<48, 49, 50, 51, 52, 53, 54, 55, 56, 57, 97, 98, 99, 100, 101, 102>>

\* serde_json's escape of one byte of a string
EscapeByte(b) ==
    CASE b = QUOTE     -> <<BACKSLASH, QUOTE>>
      [] b = BACKSLASH -> <<BACKSLASH, BACKSLASH>>
      [] b = 8         -> <<BACKSLASH, 98>>     \* \b
      [] b = 9         -> <<BACKSLASH, 116>>    \* \t
      [] b = 10        -> <<BACKSLASH, 110>>    \* \n
      [] b = 12        -> <<BACKSLASH, 102>>    \* \f
      [] b = 13        -> <<BACKSLASH, 114>>    \* \r
      [] b < 32 /\ b \notin {8, 9, 10, 12, 13}
                       -> <<BACKSLASH, 117, 48, 48,
                            HexDigits[(b \div 16) + 1], HexDigits[(b % 16) + 1]>>
      [] OTHER         -> <<b>>

\* an escape that leaves the quote as it is
RECURSIVE EscapeNoQuote(_)
EscapeNoQuote(s) ==
    IF s = <<>> THEN <<>>
    ELSE (IF Head(s) = QUOTE THEN <<QUOTE>> ELSE EscapeByte(Head(s)))
         \o EscapeNoQuote(Tail(s))

RECURSIVE Escape(_)
Escape(s) == IF s = <<>> THEN <<>> ELSE EscapeByte(Head(s)) \o Escape(Tail(s))

SerStr(s) == <<QUOTE>> \o Escape(s) \o <<QUOTE>>

\* an unsigned integer in decimal
SerInt(d) == [i \in 1..Len(d) |-> 48 + d[i]]

SerBool(b) == IF b THEN <<116, 114, 117, 101>> ELSE <<102, 97, 108, 115, 101>>

\* {"text":..,"request_alternatives":..}
SerText(t) ==
    <<123, 34, 116, 101, 120, 116, 34, 58>> \o SerStr(t.text)
    \o <<44, 34, 114, 101, 113, 117, 101, 115, 116, 95, 97, 108, 116, 101, 114,
         110, 97, 116, 105, 118, 101, 115, 34, 58>> \o SerInt(t.request_alternatives)
    \o <<125>>

RECURSIVE SerTexts(_)
SerTexts(ts) ==
    IF ts = <<>> THEN <<>>
    ELSE SerText(Head(ts)) \o (IF Len(ts) > 1 THEN <<44>> ELSE <<>>) \o SerTexts(Tail(ts))

\* {"source_lang_user_selected":..,"target_lang":..}
SerLang(l) ==
    <<123, 34, 115, 111, 117, 114, 99, 101, 95, 108, 97, 110, 103, 95, 117, 115,
      101, 114, 95, 115, 101, 108, 101, 99, 116, 101, 100, 34, 58>>
    \o SerStr(l.source_lang_user_selected)
    \o <<44, 34, 116, 97, 114, 103, 101, 116, 95, 108, 97, 110, 103, 34, 58>>
    \o SerStr(l.target_lang)
    \o <<125>>

\* {"was_spoken":..,"transcribe_as":..}
SerCommonJobParams(c) ==
    <<123, 34, 119, 97, 115, 95, 115, 112, 111, 107, 101, 110, 34, 58>>
    \o SerBool(c.was_spoken)
    \o <<44, 34, 116, 114, 97, 110, 115, 99, 114, 105, 98, 101, 95, 97, 115, 34, 58>>
    \o SerStr(c.transcribe_as)
    \o <<125>>

\* {"texts":[..],"splitting":..,"lang":..,"timestamp":..,"commonJobParams":..}
SerParams(p) ==
    <<123, 34, 116, 101, 120, 116, 115, 34, 58, 91>> \o SerTexts(p.texts) \o <<93>>
    \o <<44, 34, 115, 112, 108, 105, 116, 116, 105, 110, 103, 34, 58>> \o SerStr(p.splitting)
    \o <<44, 34, 108, 97, 110, 103, 34, 58>> \o SerLang(p.lang)
    \o <<44, 34, 116, 105, 109, 101, 115, 116, 97, 109, 112, 34, 58>> \o SerInt(p.timestamp)
    \o <<44, 34, 99, 111, 109, 109, 111, 110, 74, 111, 98, 80, 97, 114, 97, 109,
         115, 34, 58>> \o SerCommonJobParams(p.commonJobParams)
    \o <<125>>

\* the bytes up to and including the method key: {"jsonrpc":<jsonrpc>,"method"
SerPostDataHead(d) ==
    <<123, 34, 106, 115, 111, 110, 114, 112, 99, 34, 58>> \o SerStr(d.jsonrpc)
    \o <<44, 34, 109, 101, 116, 104, 111, 100, 34>>

\* {"jsonrpc":..,"method":..,"id":..,"params":..}
SerPostData(d) ==
    SerPostDataHead(d) \o <<58>> \o SerStr(d.method)
    \o <<44, 34, 105, 100, 34, 58>> \o SerInt(d.id)
    \o <<44, 34, 112, 97, 114, 97, 109, 115, 34, 58>> \o SerParams(d.params)
    \o <<125>>

\* serde_json::to_string(&post_data).unwrap_or_default(): serializing PostData
\* cannot fail (no map keys, no non-finite floats), so the default is never used
dump_post_data(d) == SerPostData(d)

\* impl Default for PostData, l.48-72
PostDataDefault ==
    [jsonrpc |-> S_2_0,
     method  |-> S_LMT_handle_texts,
     id      |-> Zero,
     params  |-> [texts     |-> << [text |-> <<>>, request_alternatives |-> Zero] >>,
                  splitting |-> S_newlines,
                  lang      |-> [source_lang_user_selected |-> S_auto,
                                 target_lang |-> S_ZH],
                  timestamp |-> Zero,
                  commonJobParams |-> [was_spoken |-> FALSE, transcribe_as |-> <<>>]]]

\* the envelope after the assignments of l.178-182
Envelope(i, ts, t, src, tgt) ==
    [PostDataDefault EXCEPT
        !.id = i,
        !.params.timestamp = ts,
        !.params.texts[1].text = t,
        !.params.lang.source_lang_user_selected = src,
        !.params.lang.target_lang = tgt]

-----------------------------------------------------------------------------
(* The obfuscation step, l.185-189. *)

MatchesAt(s, pat, i) ==
    /\ i + Len(pat) - 1 <= Len(s)
    /\ SubSeq(s, i, i + Len(pat) - 1) = pat

\* the first match of pat in s at or after i, or 0
FirstMatch(s, pat, i) ==
    LET M == { j \in i..Len(s) : MatchesAt(s, pat, j) }
    IN  IF M = {} THEN 0 ELSE CHOOSE j \in M : \A k \in M : j <= k

\* str::replace: every non-overlapping match, left to right; what lies
\* between two matches is copied
RECURSIVE ReplaceFrom(_, _, _, _)
ReplaceFrom(s, from, to, i) ==
    LET j == FirstMatch(s, from, i)
    IN  IF j = 0 THEN SubSeq(s, i, Len(s))
        ELSE SubSeq(s, i, j - 1) \o to \o ReplaceFrom(s, from, to, j + Len(from))

Replace(s, from, to) == ReplaceFrom(s, from, to, 1)

\* the two congruences joined by && instead of ||
UsePaddedBoth(i) ==
    /\ ModSmall(Add(i, <<5>>), 29) = 0
    /\ ModSmall(Add(i, <<3>>), 13) = 0

\* (id + 5) % 29 == 0 || (id + 3) % 13 == 0, l.185
UsePadded(i) ==
    \/ ModSmall(Add(i, <<5>>), 29) = 0
    \/ ModSmall(Add(i, <<3>>), 13) = 0

\* the two arms of the if exchanged
ObfuscateSwapped(i, s) ==
    IF UsePadded(i)
    THEN Replace(s, METHOD_CANONICAL, METHOD_SINGLE)
    ELSE Replace(s, METHOD_CANONICAL, METHOD_PADDED)

Obfuscate(i, s) ==
    IF UsePadded(i)
    THEN Replace(s, METHOD_CANONICAL, METHOD_PADDED)
    ELSE Replace(s, METHOD_CANONICAL, METHOD_SINGLE)

-----------------------------------------------------------------------------
(* The HTTP exchange and the decoding of its response, l.74-99, l.129-159  *)
(* and l.190-197.                                                          *)

\* StatusCode::OK
STATUS_OK == 200

\* the fields serde requires of DeepLResponse and DeeplResult (none has a default)
RequiredFields ==
    {"jsonrpc", "id", "result.texts", "result.lang", "result.lang_is_confident",
     "result.detectedLanguages"}

\* A response body: whether it is JSON at all, and the fields it holds.
FullBody ==
    [json |-> TRUE, obj |-> [f \in RequiredFields \cup {"result.extra"} |-> f]]
PartialBody ==
    [json |-> TRUE, obj |-> [f \in {"jsonrpc", "id", "error"} |-> f]]
NotJsonBody ==
    [json |-> FALSE, obj |-> [f \in {} |-> f]]

Bodies == {FullBody, PartialBody, NotJsonBody}
Statuses == {STATUS_OK, 202, 429}
Responses == [status : Statuses, body : Bodies]

NoResp == [status |-> 0, body |-> NotJsonBody]
NoResult == [tag |-> "none"]

\* a decoder that takes the fields it finds and leaves the others out
DecodeLenient(body) ==
    IF body.json
    THEN [ok |-> TRUE,
          val |-> [f \in RequiredFields \cap DOMAIN body.obj |-> body.obj[f]]]
    ELSE [ok |-> FALSE, why |-> "unwrap on Err: decode"]

\* resp.json::<DeepLResponse>(): every required field must be present;
\* unknown fields are ignored
Decode(body) ==
    IF body.json /\ RequiredFields \subseteq DOMAIN body.obj
    THEN [ok |-> TRUE, val |-> [f \in RequiredFields |-> body.obj[f]]]
    ELSE [ok |-> FALSE, why |-> "unwrap on Err: decode"]

\* any 2xx status taken for success
IsSuccessStatus(status) == status \in 200..299

\* the arm of the match of l.191-196 a status takes
IsOK(status) == status = STATUS_OK

-----------------------------------------------------------------------------
(* Inputs. *)

\* SystemTime::now().duration_since(UNIX_EPOCH) as milliseconds; a clock set
\* before the epoch makes expect("Time went backwards") panic
ClockReadings == { FromInt(t) : t \in 0..MaxClock }

BuildProfiles == BOOLEAN    \* overflow checks on (debug) or off (release)

LineFeeds(k) == [i \in 1..k |-> LF]

Texts ==
    {<<>>, S_hello_world, S_method, S_method_pattern, S_backslash_pattern \o S_control}
    \cup { LineFeeds(k) : k \in 1..MaxLineFeeds }

LangPairs == { <<S_auto, S_DE>>, <<S_method_pattern, S_method>> }

-----------------------------------------------------------------------------
(* deepl_translate, l.161-198, one action per statement. *)

Abort(why) ==
    /\ pc' = "panicked"
    /\ panic' = why

TimeWentBackwards == "Time went backwards"

\* l.166-175: let count = text.as_bytes().iter().fold(timestamp_for_i_count(0), ..)
Fold ==
    /\ pc = "fold"
    /\ \/ \E now \in ClockReadings, checks \in BuildProfiles :
              LET t == timestamp_for_i_count(Zero, now, checks)
              IN  /\ raw' = Append(raw, now)
                  /\ count' = FoldLineFeeds(t.val, text)
                  /\ pc' = "id"
                  /\ panic' = panic
       \/ /\ Abort(TimeWentBackwards)
          /\ UNCHANGED <<raw, count>>
    /\ UNCHANGED <<text, src_lang, target_lang, id, timestamp, post_data,
                   post_data_str, sent, resp, result>>

\* l.177-178: let id = random_number_id(); post_data.id = id
RandomNumberId ==
    /\ pc = "id"
    /\ \/ \E num \in Draws, checks \in BuildProfiles :
              LET r == random_number_id(num, checks)
              IN  IF r.ok
                  THEN /\ id' = r.val
                       /\ pc' = "ts"
                       /\ panic' = panic
                  ELSE /\ Abort(r.why)
                       /\ id' = id
       \/ /\ Abort(TimeWentBackwards)
          /\ id' = id
    /\ UNCHANGED <<text, src_lang, target_lang, raw, count, timestamp, post_data,
                   post_data_str, sent, resp, result>>

\* l.179: post_data.params.timestamp = timestamp_for_i_count(count)
FinalTimestamp ==
    /\ pc = "ts"
    /\ \/ \E now \in ClockReadings, checks \in BuildProfiles :
              LET t == timestamp_for_i_count(count, now, checks)
              IN  /\ raw' = Append(raw, now)
                  /\ IF t.ok
                     THEN /\ timestamp' = t.val
                          /\ pc' = "dump"
                          /\ panic' = panic
                     ELSE /\ Abort(t.why)
                          /\ timestamp' = timestamp
       \/ /\ Abort(TimeWentBackwards)
          /\ UNCHANGED <<raw, timestamp>>
    /\ UNCHANGED <<text, src_lang, target_lang, count, id, post_data,
                   post_data_str, sent, resp, result>>

\* l.180-184: the remaining fields, then let post_data = dump_post_data(post_data)
Dump ==
    /\ pc = "dump"
    /\ post_data' = dump_post_data(Envelope(id, timestamp, text, src_lang, target_lang))
    /\ pc' = "obf"
    /\ UNCHANGED <<text, src_lang, target_lang, raw, count, id, timestamp,
                   post_data_str, sent, resp, result, panic>>

\* l.185-189: let post_data_str = if .. { post_data.replace(..) } else { .. }
Obf ==
    /\ pc = "obf"
    /\ post_data_str' = Obfuscate(id, post_data)
    /\ pc' = "send"
    /\ UNCHANGED <<text, src_lang, target_lang, raw, count, id, timestamp,
                   post_data, sent, resp, result, panic>>

\* l.190: let resp = deepl_translate_request(post_data_str).await.unwrap()
Send ==
    /\ pc = "send"
    /\ sent' = Append(sent, post_data_str)
    /\ \/ \E r \in Responses :
              /\ resp' = r
              /\ pc' = "match"
              /\ panic' = panic
       \/ /\ Abort("unwrap on Err: send")
          /\ resp' = resp
    /\ UNCHANGED <<text, src_lang, target_lang, raw, count, id, timestamp,
                   post_data, post_data_str, result>>

\* the match with a second attempt after a non-200 status
MatchRetry ==
    /\ pc = "match"
    /\ IF IsOK(resp.status)
       THEN LET body == Decode(resp.body)
            IN  IF body.ok
                THEN /\ result' = [tag |-> "Ok", value |-> body.val]
                     /\ pc' = "done"
                     /\ panic' = panic
                ELSE /\ Abort(body.why)
                     /\ result' = result
       ELSE /\ result' = result
            /\ pc' = IF Len(sent) < 2 THEN "send" ELSE "done"
            /\ panic' = panic
    /\ UNCHANGED <<text, src_lang, target_lang, raw, count, id, timestamp,
                   post_data, post_data_str, sent, resp>>

\* l.191-197: match resp.status() { OK => Ok(resp.json().await.unwrap()), _ => Err(resp) }
Match ==
    /\ pc = "match"
    /\ IF IsOK(resp.status)
       THEN LET body == Decode(resp.body)
            IN  IF body.ok
                THEN /\ result' = [tag |-> "Ok", value |-> body.val]
                     /\ pc' = "done"
                     /\ panic' = panic
                ELSE /\ Abort(body.why)
                     /\ result' = result
       ELSE /\ result' = [tag |-> "Err", resp |-> resp]
            /\ pc' = "done"
            /\ panic' = panic
    /\ UNCHANGED <<text, src_lang, target_lang, raw, count, id, timestamp,
                   post_data, post_data_str, sent, resp>>

-----------------------------------------------------------------------------
(* The call of deepl_translate on every input. *)

Init ==
    /\ pc = "fold"
    /\ text \in Texts
    /\ \E l \in LangPairs : src_lang = l[1] /\ target_lang = l[2]
    /\ raw = <<>>
    /\ count = <<>>
    /\ id = <<>>
    /\ timestamp = <<>>
    /\ post_data = <<>>
    /\ post_data_str = <<>>
    /\ sent = <<>>
    /\ resp = NoResp
    /\ result = NoResult
    /\ panic = "none"

Next ==
    \/ Fold
    \/ RandomNumberId
    \/ FinalTimestamp
    \/ Dump
    \/ Obf
    \/ Send
    \/ Match

Spec == Init /\ [][Next]_vars

-----------------------------------------------------------------------------
(* timestamp_for_i_count applied to every count, also those the fold of    *)
(* deepl_translate never produces.                                         *)

CountInputs ==
    { FromInt(c) : c \in 0..MaxSmallCount }
    \cup { Sub(U128Max, FromInt(c)) : c \in 0..MaxSmallCount }

InitAlign ==
    /\ pc = "ts"
    /\ count \in CountInputs
    /\ text = <<>>
    /\ src_lang = S_auto
    /\ target_lang = S_ZH
    /\ raw = <<>>
    /\ id = Zero
    /\ timestamp = <<>>
    /\ post_data = <<>>
    /\ post_data_str = <<>>
    /\ sent = <<>>
    /\ resp = NoResp
    /\ result = NoResult
    /\ panic = "none"

NextAlign == FinalTimestamp

SpecAlign == InitAlign /\ [][NextAlign]_vars

-----------------------------------------------------------------------------
(* Serialization and obfuscation applied to every id, also those           *)
(* random_number_id never returns.                                         *)

IdInputs == { FromInt(n) : n \in 8345000 .. (8345000 + MaxIdOffset) }

InitObf ==
    /\ pc = "dump"
    /\ id \in IdInputs
    /\ text \in Texts
    /\ \E l \in LangPairs : src_lang = l[1] /\ target_lang = l[2]
    /\ raw = <<One, One>>
    /\ count = One
    /\ timestamp = <<2>>
    /\ post_data = <<>>
    /\ post_data_str = <<>>
    /\ sent = <<>>
    /\ resp = NoResp
    /\ result = NoResult
    /\ panic = "none"

NextObf ==
    \/ Dump
    \/ Obf

SpecObf == InitObf /\ [][NextObf]_vars

-----------------------------------------------------------------------------
(* What the claims are stated with. *)

\* a small number of the program as an integer
RECURSIVE ToIntPrefix(_, _)
ToIntPrefix(d, i) == IF i = 0 THEN 0 ELSE ToIntPrefix(d, i - 1) * 10 + d[i]

ToInt(d) == ToIntPrefix(d, Len(d))

\* the number of bytes of t equal to 0x0A
LineFeedCount(t) == Cardinality({ i \in 1..Len(t) : t[i] = 10 })

\* {"jsonrpc":"2.0",  -- what precedes the top-level method key
BeforeMethodKey ==
    <<123, 34, 106, 115, 111, 110, 114, 112, 99, 34, 58, 34, 50, 46, 48, 34, 44>>

\* where the top-level method key starts
MethodKeySite == Len(BeforeMethodKey) + 1

\* the canonical serialization after the delimiter of the top-level method key
AfterMethodDelimiter(canon) ==
    SubSeq(canon, MethodKeySite + Len(METHOD_CANONICAL), Len(canon))

\* the canonical serialization with the delimiter of the top-level method
\* key, and nothing else, replaced by variant
WithVariant(canon, variant) ==
    BeforeMethodKey \o variant \o AfterMethodDelimiter(canon)

\* s holds pat at position i
HasAt(s, pat, i) ==
    /\ i + Len(pat) - 1 <= Len(s)
    /\ \A k \in 1..Len(pat) : s[i + k - 1] = pat[k]

\* the positions of s that hold pat
Sites(s, pat) == { i \in 1..Len(s) : HasAt(s, pat, i) }

\* s without its i-th byte
DropAt(s, i) == SubSeq(s, 1, i - 1) \o SubSeq(s, i + 1, Len(s))

Decodable(body) == body.json /\ RequiredFields \subseteq DOMAIN body.obj

Received == resp # NoResp

-----------------------------------------------------------------------------
(* The claims. *)

\* C1: a call whose exchange completed with a status other than 200 returns
\* Err carrying the response as it was received (status and body), and a call
\* returns Ok only for status 200.
C1_NonOkStatusIsErr ==
    /\ (Received /\ resp.status # 200 /\ pc # "match")
          => /\ pc = "done"
             /\ result = [tag |-> "Err", resp |-> resp]
             /\ result.resp.status = resp.status
             /\ result.resp.body = resp.body
    /\ result.tag = "Ok" => (Received /\ resp.status = 200)

\* C1 witness: the call has returned Err for a 429 response with a full body
C1_Witness ==
    /\ pc = "done"
    /\ resp.status = 429
    /\ resp.body = FullBody
    /\ result.tag = "Err"

\* C2: a failed send and a failed decode on status 200 abort the call: it
\* returns neither Ok nor Err; what a call returns is a response decoded in
\* every required field, or the raw non-200 response.
C2_AbortOnSendOrDecodeFailure ==
    /\ (sent # <<>> /\ ~Received /\ pc # "send")
          => (pc = "panicked" /\ result = NoResult)
    /\ (Received /\ resp.status = 200 /\ ~Decodable(resp.body) /\ pc # "match")
          => (pc = "panicked" /\ result = NoResult)
    /\ pc = "panicked" => result = NoResult
    /\ result.tag \in {"none", "Ok", "Err"}
    /\ result.tag = "Ok"
          => /\ DOMAIN result.value = RequiredFields
             /\ \A f \in RequiredFields : result.value[f] = resp.body.obj[f]
    /\ result.tag = "Err" => (result.resp = resp /\ resp.status # 200)

\* C2 witness: status 200 with a body that lacks required fields, and the
\* call has aborted
C2_Witness ==
    /\ pc = "panicked"
    /\ resp.status = 200
    /\ resp.body = PartialBody
    /\ result = NoResult

\* C3: a call performs at most one HTTP exchange whatever its outcome, and
\* what it sends is the obfuscated payload, computed with the id and the
\* timestamp before the send.
C3_AtMostOneExchange ==
    /\ Len(sent) <= 1
    /\ sent # <<>>
          => /\ id # <<>>
             /\ timestamp # <<>>
             /\ post_data # <<>>
             /\ post_data_str # <<>>
             /\ sent[1] = post_data_str
    /\ pc \in {"match", "done"} => Len(sent) = 1

\* C3 witness: the call has returned Err for a non-200 status after one send
C3_Witness ==
    /\ pc = "done"
    /\ result.tag = "Err"
    /\ resp.status = 202
    /\ Len(sent) = 1

\* C4: random_number_id returns a draw of [8_300_000, 8_399_998) times 1000:
\* a multiple of 1000 in [8_300_000_000, 8_399_998_000), inside i64, and the
\* multiplication never aborts the call.
C4_IdRange ==
    /\ id # <<>>
          => /\ LessEq(<<8,3,0,0, 0,0,0, 0,0,0>>, id)
             /\ Less(id, <<8,3,9,9, 9,9,8, 0,0,0>>)
             /\ Len(id) = 10
             /\ SubSeq(id, 8, 10) = <<0, 0, 0>>
             /\ ToInt(SubSeq(id, 1, 7)) \in 8300000..8399997
             /\ LessEq(id, I64Max)
    /\ panic # "attempt to multiply with overflow"
    /\ (pc \notin {"fold", "id", "panicked"}) => id # <<>>

\* C4 witness: the largest draw, 8_399_997, gave the id 8_399_997_000
C4_Witness == id = <<8,3,9,9, 9,9,7, 0,0,0>>

\* C5: for every count # 0 of u128, the largest included, and every clock
\* reading, timestamp_for_i_count returns raw - raw mod (count+1) + (count+1),
\* a value strictly greater than the raw reading.
C5_ReturnsGreaterThanRaw ==
    (raw # <<>> /\ count # Zero)
       => /\ pc = "dump"
          /\ Less(Last(raw), timestamp)

\* C5, below the largest count: the same statement for every count # 0
\* other than u128::MAX holds
C5_BelowMax ==
    (raw # <<>> /\ count # Zero /\ count # U128Max)
       => /\ pc = "dump"
          /\ Less(Last(raw), timestamp)
          /\ timestamp =
               Add(Sub(Last(raw), Mod(Last(raw), Add(count, One))), Add(count, One))

\* C6: the payload handed to the send is a function of the id and the
\* canonical serialization:
\* the delimiter of the method key is the space-padded variant when
\* (id+5) mod 29 = 0 or (id+3) mod 13 = 0 and the single-space variant
\* otherwise, and the two candidate outputs differ in the one space before
\* the colon only.
C6_VariantChosenByCongruences ==
    pc = "send"
       => LET padded == \/ ModSmall(Add(id, <<5>>), 29) = 0
                        \/ ModSmall(Add(id, <<3>>), 13) = 0
              outPadded == Replace(post_data, METHOD_CANONICAL, METHOD_PADDED)
              outSingle == Replace(post_data, METHOD_CANONICAL, METHOD_SINGLE)
          IN  /\ padded => /\ post_data_str = outPadded
                           /\ HasAt(post_data_str, METHOD_PADDED, MethodKeySite)
              /\ ~padded => /\ post_data_str = outSingle
                            /\ HasAt(post_data_str, METHOD_SINGLE, MethodKeySite)
              /\ Len(outPadded) = Len(outSingle) + 1
              /\ outPadded[MethodKeySite + 8] = 32
              /\ DropAt(outPadded, MethodKeySite + 8) = outSingle

\* C6 witness: an id with (id+3) mod 13 = 0 and (id+5) mod 29 # 0 got the
\* space-padded variant
C6_Witness ==
    /\ pc = "send"
    /\ id = <<8,3,0,0, 0,0,9, 0,0,0>>
    /\ HasAt(post_data_str, METHOD_PADDED, MethodKeySite)

\* C7 as stated: id 8345000 yields the space-padded variant, id 8345001 the
\* single-space variant.
C7_AsStated ==
    post_data_str # <<>>
       => /\ id = <<8,3,4,5,0,0,0>> => HasAt(post_data_str, METHOD_PADDED, MethodKeySite)
          /\ id = <<8,3,4,5,0,0,1>> => HasAt(post_data_str, METHOD_SINGLE, MethodKeySite)

\* C7 as amended: id 8345000 satisfies neither congruence ((id+5) mod 29 = 23,
\* (id+3) mod 13 = 4) and yields the single-space variant, as id 8345001 does.
C7_BothSingleSpace ==
    /\ (8345000 + 5) % 29 = 23
    /\ (8345000 + 3) % 13 = 4
    /\ post_data_str # <<>>
          => /\ id = <<8,3,4,5,0,0,0>>
                   => /\ HasAt(post_data_str, METHOD_SINGLE, MethodKeySite)
                      /\ ~HasAt(post_data_str, METHOD_PADDED, MethodKeySite)
             /\ id = <<8,3,4,5,0,0,1>>
                   => /\ HasAt(post_data_str, METHOD_SINGLE, MethodKeySite)
                      /\ ~HasAt(post_data_str, METHOD_PADDED, MethodKeySite)

\* C7 witness: the rule has been applied to id 8345000
C7_Witness ==
    /\ pc = "send"
    /\ id = <<8,3,4,5,0,0,0>>
    /\ post_data_str # <<>>

\* C8: the alignment count is the provisional timestamp (the first clock
\* reading, taken before the id and the final timestamp exist) plus the
\* number of 0x0A bytes of the text: provisional + 1 for "hello\nworld",
\* the provisional timestamp itself for a text without line feeds.
C8_CountIsProvisionalPlusLineFeeds ==
    /\ count # <<>>
          => /\ raw # <<>>
             /\ ToInt(count) = ToInt(raw[1]) + LineFeedCount(text)
             /\ text = S_hello_world => ToInt(count) = ToInt(raw[1]) + 1
             /\ LineFeedCount(text) = 0 => count = raw[1]
    /\ pc = "id" => (Len(raw) = 1 /\ id = <<>> /\ timestamp = <<>>)

\* C8 witness: the count of "hello\nworld" from a provisional timestamp of 2
C8_Witness ==
    /\ text = S_hello_world
    /\ raw # <<>>
    /\ raw[1] = <<2>>
    /\ count = <<3>>

\* C10: with t1 the provisional reading, n the line feeds of the text and t2
\* the second reading, t2 >= t1 > 0: the timestamp of the envelope is a
\* positive multiple of m = t1 + n + 1, greater than t2 and at most t2 + m,
\* and exactly m when t2 <= t1 + n; the count is not zero.
C10_FinalTimestampAligned ==
    (timestamp # <<>> /\ Len(raw) >= 2)
       => LET t1 == ToInt(raw[1])
              t2 == ToInt(raw[2])
              n  == LineFeedCount(text)
              m  == t1 + n + 1
              ts == ToInt(timestamp)
          IN  (t2 >= t1 /\ t1 > 0)
                 => /\ count # Zero
                    /\ ts > 0
                    /\ ts % m = 0
                    /\ ts > t2
                    /\ ts <= t2 + m
                    /\ t2 <= t1 + n => ts = m

\* C10 witness: t2 > t1 + n, so the timestamp is the second multiple of m
C10_Witness ==
    /\ timestamp # <<>>
    /\ Len(raw) >= 2
    /\ ToInt(raw[1]) > 0
    /\ ToInt(raw[2]) > ToInt(raw[1]) + LineFeedCount(text)
    /\ ToInt(timestamp) = 2 * (ToInt(raw[1]) + LineFeedCount(text) + 1)

\* C9: for every text and language pair, also those holding quotes,
\* backslashes or the characters "method":" themselves, the payload handed
\* to the send is the
\* canonical serialization with the delimiter of the top-level method key
\* replaced and nothing else changed: neither variant occurs anywhere else.
C9_ExactlyOneSubstitutionSite ==
    pc = "send"
       => /\ Sites(post_data, METHOD_CANONICAL) = {MethodKeySite}
          /\ \/ post_data_str = WithVariant(post_data, METHOD_PADDED)
             \/ post_data_str = WithVariant(post_data, METHOD_SINGLE)
          /\ Sites(post_data_str, METHOD_PADDED) \cup Sites(post_data_str, METHOD_SINGLE)
                = {MethodKeySite}
          /\ Sites(post_data_str, METHOD_CANONICAL) = {}

\* C9 witness: the text and the source language are the characters
\* "method":" themselves, the target language is "method"
C9_Witness ==
    /\ pc = "send"
    /\ text = S_method_pattern
    /\ src_lang = S_method_pattern
    /\ target_lang = S_method

=============================================================================
